---- MODULE Spec2Model ----
(***************************************************************************)
(* Model of the real-time notification layer and of the kanban position    *)
(* allocator of TurboVets.                                                 *)
(*                                                                         *)
(*   server/websocket.ts      WebSocketManager: handshake, registry, push   *)
(*   unnamed/part_006         NotificationService: dispatch of task events  *)
(*   server/storage.ts        the store operations both consume             *)
(*   client/.../kanban-board.tsx   generatePosition                         *)
(*                                                                         *)
(* A behaviour holds any interleaving of handshakes, client messages,      *)
(* errors, closes and store changes with one call of the notification      *)
(* service; each specification keeps the part of it that it studies.       *)
(*                                                                         *)
(* One action is one turn of the Node event loop: the completion of an      *)
(* awaited I/O together with the synchronous code that follows it up to     *)
(* the next await.                                                          *)
(***************************************************************************)
EXTENDS Integers, Sequences, FiniteSets, TLC

\* ---------------------------------------------------------------- bounds
MaxConns == 2        \* WebSocket connections opened in one behaviour
MaxNewOrgs == 1      \* organizations created through POST /api/organizations
MaxTokens == 2       \* tokens in a comment text
MaxColumn == 4       \* tasks in the kanban column
MaxDense == 3        \* initial keys take every numeric segment 0..MaxDense
MaxWrites == 3       \* calls of storage.reorderTask in one behaviour
MaxInbound == 2      \* messages the clients send in one behaviour
MaxKey == 4000       \* the largest number of a key allocated by a drop of a task on itself
MaxSockets == 3      \* WebSocket objects one useWebSocket instance creates in one behaviour
MaxRetried == 6      \* the same, where the reconnect attempts are followed until they run out

\* ------------------------------------------------------- program constants
CloseAuthRequired == 1008
CloseServerError == 1011
CloseBadFormat == 1003
PositionStep == 1000     \* generatePosition: the step at either end
BetweenDefault == 2000   \* generatePosition: the numeric segment of 'a2000'
PadWidth == 4            \* generatePosition: padStart(4, '0')
BaseDelay == 1000        \* useWebSocket: the first reconnect delay, ms
MaxDelay == 30000        \* useWebSocket: the cap of the reconnect delay, ms
maxReconnectAttempts == 5
NormalClosure == 1000    \* the code disconnect passes to close
DefaultPosition == <<"a", "0">>   \* schema.ts: tasks.position default 'a0'

None == "none"
NoOrg == 0

Conns == 1..MaxConns
Orgs == 1..(1 + MaxNewOrgs)

\* ------------------------------------------------------------ the stores
\* users table: identity columns are fixed, organizationId is in userOrg
Users == {"u1", "u2", "u3"}

firstName ==
  [u \in Users |-> CASE u = "u1" -> <<"A">> [] u = "u2" -> <<"B">> [] OTHER -> <<"A">>]

lastName ==
  [u \in Users |-> CASE u = "u1" -> <<"B">> [] u = "u2" -> <<"A">> [] OTHER -> <<"B">>]

email ==
  [u \in Users |-> CASE u = "u1" -> <<"a", "b", "@", "x">>
                     [] u = "u2" -> <<"A", "b", "@", "y">>
                     [] OTHER -> <<"b", "@", "x">>]

\* sessions table: session id -> the sub of passport.user.claims, or None
\* when the session carries no claims; an id outside the domain is a miss
SessionIds == {"s1", "s2", "s3", "s4", "s5"}

sessionStore ==
  [s \in SessionIds |-> CASE s = "s1" -> "u1" [] s = "s2" -> "u2" [] s = "s3" -> "u3"
                          [] s = "s4" -> "ghost" [] OTHER -> None]

\* what a handshake can carry in its connect.sid cookie
CookieIds == SessionIds \cup {"s0"}

\* the raw cookie value as express-session writes it ("s:" id "." signature),
\* a bare id, or nothing at all
Cookies ==
  {<<>>} \cup {<<"s:", s, ".", "sig">> : s \in CookieIds} \cup {<<s>> : s \in CookieIds}

Origins == {"", "ok", "evil"}

allowedOrigins == {"ok"}

\* tasks table: the assignee of each task; "t0" is an id no task has
TaskIds == {"t1", "t2"}

taskAssignee ==
  [t \in TaskIds |-> IF t = "t1" THEN "u1" ELSE None]

\* the words a comment is written with, one character per element
Quote == "\""

TokenAlphabet ==
  { <<"@", "A", "b">>,
    <<"@", Quote, "a", " ", "B", Quote>>,
    <<"@", "x">>,
    <<"y">>,
    <<"@", Quote, "b", "@", "x", Quote>> }

VARIABLES
  ws,            \* per connection: the AuthenticatedWebSocket and its handler frame
  sent,          \* per connection: the messages ws.send put on the wire
  connections,   \* WebSocketManager.connections: organizationId -> set of ws
  userOrg,       \* users.organizationId
  nextOrg,       \* id the next created organization gets
  wsManager,     \* NotificationService.wsManager is set
  notifications, \* notifications table, in insertion order
  disp,          \* the NotificationService call under study
  deleted,       \* tasks removed by DELETE /api/tasks/:taskId
  column,        \* the position keys of the tasks of one kanban column
  allocated,     \* the last call of generatePosition: its neighbours and its result
  taskRows,      \* tasks table: status, position, completedAt, updatedAt of each row
  now,           \* the value the next new Date() takes
  reordered,     \* the last call of storage.reorderTask: its arguments
  client,        \* one useWebSocket instance: its props, refs and last close
  socks          \* every WebSocket the instance has created, in creation order

vars ==
  <<ws, sent, connections, userOrg, nextOrg, wsManager, notifications, disp, deleted,
    column, allocated, taskRows, now, reordered, client, socks>>

clientVars == <<client, socks>>

posVars == <<column, allocated>>
taskVars == <<taskRows, now, reordered>>

wsVars == <<ws, sent, connections>>
storeVars == <<userOrg, nextOrg, deleted>>
dispVars == <<wsManager, notifications, disp>>

\* ----------------------------------------------------------------- websocket
NewSocket ==
  [phase |-> "new", readyState |-> "NONE", sessionId |-> None,
   hasSessionData |-> FALSE, claimsSub |-> None,
   userFound |-> FALSE, userOrganizationId |-> NoOrg,
   userId |-> None, organizationId |-> NoOrg, isAuthenticated |-> FALSE,
   listeners |-> FALSE, closeCode |-> 0, log |-> None,
   inbound |-> 0, lastIn |-> None, errored |-> FALSE, peerGone |-> FALSE]


\* verifyClient, lines 46-49: an origin that is present must be allow-listed
OriginAllowed(origin) ==
  origin = "" \/ origin \in allowedOrigins

\* lines 80-81: strip the "s:" prefix and the signature
DecodeSessionId(sessionId) ==
  IF sessionId[1] = "s:" THEN sessionId[2] ELSE sessionId[1]

\* ws.close(code): a no-op unless the socket is still open
CloseSocket(w, code, why) ==
  [w EXCEPT !.phase = "done", !.closeCode = code, !.log = why,
            !.readyState = IF w.readyState = "OPEN" THEN "CLOSING" ELSE w.readyState]

\* sendMessage, lines 192-196
SendMessage(s, c, message) ==
  IF ws[c].readyState = "OPEN" THEN [s EXCEPT ![c] = Append(s[c], message)] ELSE s

\* mutant: the socket is put into the set of every organization
AddConnection_EveryOrg(conns, c, w) ==
  IF w.userId = None \/ w.organizationId = NoOrg
  THEN conns
  ELSE [o \in Orgs |-> conns[o] \cup {c}]

\* addConnection, lines 172-178, for a socket whose fields are w
AddConnection(conns, c, w) ==
  IF w.userId = None \/ w.organizationId = NoOrg
  THEN conns
  ELSE [conns EXCEPT ![w.organizationId] = conns[w.organizationId] \cup {c}]

\* mutant: the organization's entry is deleted whether or not the set is empty
RemoveConnection_DropOrg(conns, c) ==
  IF ws[c].organizationId = NoOrg
  THEN conns
  ELSE [conns EXCEPT ![ws[c].organizationId] = {}]

\* removeConnection, lines 180-190
RemoveConnection(conns, c) ==
  IF ws[c].organizationId = NoOrg
  THEN conns
  ELSE [conns EXCEPT ![ws[c].organizationId] = conns[ws[c].organizationId] \ {c}]

\* mutant: the confirmation carries no identity
ConnectionMessage_Anonymous(userId, organizationId) ==
  [type |-> "connection", userId |-> None, organizationId |-> NoOrg, nid |-> 0]

ConnectionMessage(userId, organizationId) ==
  [type |-> "connection", userId |-> userId, organizationId |-> organizationId, nid |-> 0]

NotificationMessage(userId, organizationId, nid) ==
  [type |-> "notification", userId |-> userId, organizationId |-> organizationId, nid |-> nid]

\* line 95: the session carries passport.user.claims
SessionHasClaims(sub) ==
  sub # None

\* mutant: the organization check of line 106 forgotten
UserHasOrganization_UserOnly(found, organizationId) ==
  found

\* line 106 negated: the user exists and belongs to an organization
UserHasOrganization(found, organizationId) ==
  found /\ organizationId # NoOrg

\* verifyClient and, when it accepts, handleConnection up to the await of
\* sessionStore.get (lines 39-85)
Handshake(c, origins, cookies) ==
  /\ ws[c].phase = "new"
  /\ \A d \in Conns : d < c => ws[d].phase # "new"
  /\ \E origin \in origins, cookie \in cookies :
        ws' = [ws EXCEPT ![c] =
          IF ~OriginAllowed(origin)
          THEN [@ EXCEPT !.phase = "rejected", !.log = "invalid origin"]
          ELSE IF cookie = <<>>
          THEN [@ EXCEPT !.phase = "rejected", !.log = "no session cookie"]
          ELSE [@ EXCEPT !.phase = "session", !.readyState = "OPEN",
                         !.sessionId = DecodeSessionId(cookie)]]
  /\ UNCHANGED <<clientVars, posVars, taskVars, sent, connections, storeVars, dispVars>>

\* the callback of sessionStore.get and the code after it up to the await of
\* storage.getUser (lines 85-105)
SessionStoreReply(c, faults) ==
  /\ ws[c].phase = "session"
  /\ \E err \in faults :
        LET sid == ws[c].sessionId
            hit == ~err /\ sid \in DOMAIN sessionStore
            sub == IF hit THEN sessionStore[sid] ELSE None
            w == [ws[c] EXCEPT !.hasSessionData = hit, !.claimsSub = sub, !.sessionId = None]
        IN ws' = [ws EXCEPT ![c] =
             IF ~hit THEN CloseSocket(w, CloseServerError, "setup error")
             ELSE IF ~SessionHasClaims(sub)
             THEN CloseSocket(w, CloseAuthRequired, "not authenticated in session")
             ELSE [w EXCEPT !.phase = "user"]]
  /\ UNCHANGED <<clientVars, posVars, taskVars, sent, connections, storeVars, dispVars>>

\* the result of storage.getUser and the rest of handleConnection
\* (lines 105-152)
UserStoreReply(c, faults) ==
  /\ ws[c].phase = "user"
  /\ \E err \in faults :
        LET userId == ws[c].claimsSub
            found == ~err /\ userId \in Users
            org == IF found THEN userOrg[userId] ELSE NoOrg
            w == [ws[c] EXCEPT !.userFound = found, !.userOrganizationId = org]
            a == [w EXCEPT !.phase = "done", !.userId = userId, !.organizationId = org,
                           !.isAuthenticated = TRUE, !.listeners = TRUE]
        IN IF err
           THEN /\ ws' = [ws EXCEPT ![c] = CloseSocket(w, CloseServerError, "setup error")]
                /\ UNCHANGED <<sent, connections>>
           ELSE IF ~UserHasOrganization(found, org)
           THEN /\ ws' = [ws EXCEPT ![c] =
                       CloseSocket(w, CloseAuthRequired, "user not found or no organization")]
                /\ UNCHANGED <<sent, connections>>
           ELSE /\ ws' = [ws EXCEPT ![c] = a]
                /\ connections' = AddConnection(connections, c, a)
                /\ sent' = SendMessage(sent, c, ConnectionMessage(userId, org))
  /\ UNCHANGED <<clientVars, posVars, taskVars, storeVars, dispVars>>

\* the transport closes (the peer went away, or the close handshake the server
\* began has finished): the 'close' listener of lines 132-134 runs if registered
CloseEvent(c) ==
  /\ ws[c].readyState \in {"OPEN", "CLOSING"}
  /\ ws[c].peerGone => ws[c].readyState = "CLOSING"
  /\ ws' = [ws EXCEPT ![c].readyState = "CLOSED"]
  /\ connections' = IF ws[c].listeners THEN RemoveConnection(connections, c) ELSE connections
  /\ UNCHANGED <<clientVars, posVars, taskVars, sent, storeVars, dispVars>>

\* the transport reports an error on a socket whose 'error' listener of lines
\* 136-139 is registered; the socket is then torn down and 'close' follows
ErrorEvent(c) ==
  /\ ws[c].listeners
  /\ ~ws[c].errored
  /\ ws[c].readyState # "NONE"
  /\ ws' = [ws EXCEPT ![c].errored = TRUE,
                      ![c].readyState = IF @ = "OPEN" THEN "CLOSING" ELSE @]
  /\ connections' = RemoveConnection(connections, c)
  /\ UNCHANGED <<clientVars, posVars, taskVars, sent, storeVars, dispVars>>

\* the client of an open connection goes away without a close frame or a
\* reset reaching the server (power loss, network partition): its ping
\* interval (useWebSocket.ts lines 45-51) stops, and the server sees no event.
\* The server keeps no time of the last ping and sets no timer
\* (handleMessage, lines 155-169; handleConnection, lines 69-153).
PeerGone(c) ==
  /\ ws[c].readyState = "OPEN"
  /\ ~ws[c].peerGone
  /\ ws' = [ws EXCEPT ![c].peerGone = TRUE]
  /\ UNCHANGED <<clientVars, posVars, taskVars, sent, connections, storeVars, dispVars>>

\* what a client may send: a ping, a message of another type, the JSON text
\* null, and a text that is not JSON
Payloads == {"ping", "other", "null", "garbage"}

\* messages that carry userId and organizationId fields of another member:
\* one of a type the server does not know, and a ping
IdentityPayloads == {"identify", "pingAs"}

\* message.type === 'ping' (line 163)
IsPing(payload) ==
  payload \in {"ping", "pingAs"}

PongMessage ==
  [type |-> "pong", userId |-> None, organizationId |-> NoOrg, nid |-> 0]

\* JSON.parse(data.toString()) of line 124 returns
ParsesAsJson(payload) ==
  payload # "garbage"

\* handleMessage, line 157
AllowedToSend(w) ==
  w.isAuthenticated

\* line 162 reads message.type: a TypeError when the message is null
HasType(payload) ==
  payload # "null"

\* mutant: a message that names a user and an organization is believed
OnMessageType_Trusting(w, payload) ==
  IF payload \in IdentityPayloads
  THEN [w EXCEPT !.userId = "u2", !.organizationId = 2]
  ELSE w

\* the switch of lines 162-168: neither case assigns a field of ws, and no
\* field of the message other than type is read
OnMessageType(w, payload) ==
  w

\* mutant: the catch only logs
OnInvalidMessage_LogOnly(w) ==
  w

\* the catch of lines 126-129
OnInvalidMessage(w) ==
  CloseSocket(w, CloseBadFormat, "invalid message format")

RECURSIVE TotalInbound(_)
TotalInbound(cs) ==
  IF cs = {} THEN 0
  ELSE LET c == CHOOSE x \in cs : TRUE
       IN ws[c].inbound + TotalInbound(cs \ {c})

\* the client sends a message while the socket can still receive. Before
\* line 122 has run the socket has no 'message' listener and the message goes
\* nowhere; after it, lines 123-129 and handleMessage (lines 155-169) run
ClientMessage(c, payloads) ==
  /\ ws[c].readyState \in {"OPEN", "CLOSING"}
  /\ ~ws[c].peerGone
  /\ TotalInbound(Conns) < MaxInbound
  /\ \E payload \in payloads :
        LET w == [ws[c] EXCEPT !.inbound = @ + 1, !.lastIn = payload]
        IN IF ~ws[c].listeners
           THEN ws' = [ws EXCEPT ![c] = w] /\ sent' = sent
           ELSE IF ~ParsesAsJson(payload)
           THEN ws' = [ws EXCEPT ![c] = OnInvalidMessage(w)] /\ sent' = sent
           ELSE IF ~AllowedToSend(w)
           THEN /\ ws' = [ws EXCEPT ![c] =
                       CloseSocket(w, CloseAuthRequired, "authentication required")]
                /\ sent' = sent
           ELSE IF ~HasType(payload)
           THEN ws' = [ws EXCEPT ![c] = OnInvalidMessage(w)] /\ sent' = sent
           ELSE /\ ws' = [ws EXCEPT ![c] = OnMessageType(w, payload)]
                /\ sent' = IF IsPing(payload) THEN SendMessage(sent, c, PongMessage)
                            ELSE sent
  /\ UNCHANGED <<clientVars, posVars, taskVars, connections, storeVars, dispVars>>

\* getConnectionCount, lines 228-235
RECURSIVE SumSizes(_, _)
SumSizes(conns, orgs) ==
  IF orgs = {} THEN 0
  ELSE LET o == CHOOSE x \in orgs : TRUE
       IN Cardinality(conns[o]) + SumSizes(conns, orgs \ {o})

getConnectionCount == SumSizes(connections, Orgs)

\* POST /api/organizations, lines 321-340: the caller becomes a member of the
\* organization it has just created
CreateOrganization(u) ==
  /\ nextOrg \in Orgs
  /\ userOrg' = [userOrg EXCEPT ![u] = nextOrg]
  /\ nextOrg' = nextOrg + 1
  /\ UNCHANGED <<clientVars, posVars, taskVars, wsVars, deleted, dispVars>>

\* DELETE /api/tasks/:taskId, lines 524-544
DeleteTask(t) ==
  /\ t \notin deleted
  /\ deleted' = deleted \cup {t}
  /\ UNCHANGED <<clientVars, posVars, taskVars, wsVars, userOrg, nextOrg, dispVars>>

\* ------------------------------------------------------------ text helpers
Lower(ch) ==
  CASE ch = "A" -> "a" [] ch = "B" -> "b" [] OTHER -> ch

\* String.prototype.toLowerCase
ToLowerCase(str) ==
  [i \in 1..Len(str) |-> Lower(str[i])]

\* \w of the mention pattern
IsWordChar(ch) ==
  ch \in {"a", "b", "x", "y", "A", "B"}

\* number of leading characters of str, from index i on, that satisfy keep
RECURSIVE RunLength(_, _, _)
RunLength(str, i, quoted) ==
  IF i > Len(str) THEN 0
  ELSE IF (quoted /\ str[i] # Quote) \/ (~quoted /\ IsWordChar(str[i]))
  THEN 1 + RunLength(str, i + 1, quoted)
  ELSE 0

\* str.split('@')[0]
LocalPart(str) ==
  LET ats == {i \in 1..Len(str) : str[i] = "@"}
  IN IF ats = {} THEN str
     ELSE SubSeq(str, 1, (CHOOSE i \in ats : \A j \in ats : i <= j) - 1)

\* lines 113-120: every match of /@(?:"([^"]+)"|(\w+))/g from index i on,
\* as match[1] || match[2]
RECURSIVE ScanMentions(_, _)
ScanMentions(str, i) ==
  IF i > Len(str) THEN <<>>
  ELSE IF str[i] # "@" THEN ScanMentions(str, i + 1)
  ELSE LET q == IF i + 1 <= Len(str) /\ str[i + 1] = Quote
                THEN RunLength(str, i + 2, TRUE) ELSE 0
           closed == q > 0 /\ i + 2 + q <= Len(str)
           w == RunLength(str, i + 1, FALSE)
       IN IF closed
          THEN <<SubSeq(str, i + 2, i + 1 + q)>> \o ScanMentions(str, i + 3 + q)
          ELSE IF w > 0
          THEN <<SubSeq(str, i + 1, i + w)>> \o ScanMentions(str, i + 1 + w)
          ELSE ScanMentions(str, i + 1)

Mentions(content) ==
  ScanMentions(content, 1)

RECURSIVE Join(_)
Join(tokens) ==
  IF tokens = <<>> THEN <<>>
  ELSE IF Len(tokens) = 1 THEN tokens[1]
  ELSE tokens[1] \o <<" ">> \o Join(Tail(tokens))

Texts(n) ==
  UNION {{Join(ts) : ts \in [1..k -> TokenAlphabet]} : k \in 0..n}

\* lines 131-137: the predicate of orgUsers.find
MentionMatches(u, mention) ==
  LET fullName == ToLowerCase(firstName[u] \o <<" ">> \o lastName[u])
      mail == ToLowerCase(email[u])
      m == ToLowerCase(mention)
  IN fullName = m \/ mail = m \/ LocalPart(mail) = m

\* orgUsers.find(...): the first member, in the order the store returned them,
\* that matches; None when there is none
FindUser(orgUsers, mention) ==
  LET hits == {i \in 1..Len(orgUsers) : MentionMatches(orgUsers[i], mention)}
  IN IF hits = {} THEN None
     ELSE orgUsers[CHOOSE i \in hits : \A j \in hits : i <= j]

\* ------------------------------------------------------ NotificationService
\* The frame of the call in flight. pc names the await it is suspended at:
\*   A1 getUserById  A2 getTask  A3 createNotification      (notifyTaskAssigned)
\*   S1 getTask  S2 getUserById  S3 createNotification      (notifyTaskStatusChanged)
\*   C1 getTask  C2 getUserById  C3 createNotification      (notifyTaskComment)
\*   M1 getUsersInOrganization  M2 getTask  M3 createNotification (handleMentions)
\* rejected: a store call of this frame rejected; error: the call itself
\* rejected to its caller. Titles and message texts are not part of the frame.
IdleDisp ==
  [pc |-> "idle", kind |-> None, taskId |-> None, assigneeId |-> None,
   actor |-> None, org |-> NoOrg, content |-> <<>>, mentions |-> <<>>, i |-> 0,
   orgUsers |-> <<>>, inLoop |-> FALSE, to |-> None, type |-> None,
   rejected |-> FALSE, error |-> FALSE]

Actors == Users \cup {"ghost"}

TaskInputs == TaskIds \cup {"t0"}

RowOrders(S) ==
  {f \in [1..Cardinality(S) -> S] : \A i, j \in 1..Cardinality(S) : f[i] = f[j] => i = j}

TaskPresent(t) ==
  t \in TaskIds \ deleted

Finish(d) ==
  [d EXCEPT !.pc = "done"]

\* an exception leaves the async function: its promise rejects
Throw(d) ==
  [d EXCEPT !.pc = "done", !.error = TRUE]

\* a store call rejected
Rejected(d) ==
  [d EXCEPT !.rejected = TRUE]

\* mutant: the catch block logs and does not rethrow
OnCreateError_Swallow(d) ==
  Finish(d)

\* mutant: the failure of one recipient is logged and the fan-out goes on to
\* the next recipient
OnCreateError_NextRecipient(d) ==
  [d EXCEPT !.pc = IF d.inLoop /\ d.i < Len(d.mentions) THEN "M3" ELSE "done",
            !.i = IF d.inLoop /\ d.i < Len(d.mentions) THEN d.i + 1 ELSE d.i]

\* the catch block of createAndSendNotification, lines 30-33: log and rethrow
OnCreateError(d) ==
  Throw(d)

\* the call of createAndSendNotification, up to its await (lines 12-15)
AwaitCreate(d, pc, to, type) ==
  [d EXCEPT !.pc = pc, !.to = to, !.type = type]

\* mutant: the author is not excluded
ShouldNotifyMention_Self(mentionedUser, mentionedByUserId) ==
  mentionedUser # None

\* line 139: a notification is created for a found user other than the author
ShouldNotifyMention(mentionedUser, mentionedByUserId) ==
  mentionedUser # None /\ mentionedUser # mentionedByUserId

\* the for loop of lines 129-151 from index j on, up to its next await: the
\* index of the next mention that gets a notification, 0 when there is none
RECURSIVE NextMention(_, _, _, _)
NextMention(orgUsers, mentions, actor, j) ==
  IF j > Len(mentions) THEN 0
  ELSE IF ShouldNotifyMention(FindUser(orgUsers, mentions[j]), actor) THEN j
  ELSE NextMention(orgUsers, mentions, actor, j + 1)

MentionLoop(d, j) ==
  LET n == NextMention(d.orgUsers, d.mentions, d.actor, j)
      e == [d EXCEPT !.inLoop = TRUE]
  IN IF n = 0 THEN Finish(e)
     ELSE AwaitCreate([e EXCEPT !.i = n], "M3", FindUser(e.orgUsers, e.mentions[n]), "mention")

\* handleMentions up to its first await (lines 111-125)
HandleMentions(d) ==
  LET mentions == Mentions(d.content)
  IN IF Len(mentions) = 0 THEN Finish(d)
     ELSE [d EXCEPT !.pc = "M1", !.mentions = mentions]

\* line 38
SelfAssigned(assigneeId, assignedByUserId) ==
  assigneeId = assignedByUserId

\* line 61, the part about the assignee
NoStatusRecipient(assigneeId, changedByUserId) ==
  assigneeId = None \/ assigneeId = changedByUserId

\* line 93
CommentRecipient(assigneeId, commenterId) ==
  assigneeId # None /\ assigneeId # commenterId

StartDisp(kind, taskId, assigneeId, actor, org, content) ==
  [IdleDisp EXCEPT !.kind = kind, !.taskId = taskId,
                   !.assigneeId = assigneeId, !.actor = actor, !.org = org,
                   !.content = content]

\* A behaviour follows one call from its start to its end. Calls share nothing
\* but the notifications table, which they only append to, and the registry,
\* which they only read.
CanDispatch ==
  disp.pc = "idle"

\* setWebSocketManager, lines 8-10
SetWebSocketManager ==
  /\ ~wsManager
  /\ wsManager' = TRUE
  /\ UNCHANGED <<clientVars, posVars, taskVars, wsVars, storeVars, notifications, disp>>

\* notifyTaskAssigned up to its first await (lines 37-40)
NotifyTaskAssigned(in) ==
  /\ CanDispatch
  /\ \E taskId \in in.tasks, assigneeId \in in.assignees, actor \in in.actors, org \in Orgs :
        LET d == StartDisp("TaskAssigned", taskId, assigneeId, actor, org, <<>>)
        IN disp' = IF SelfAssigned(assigneeId, actor) THEN Finish(d)
                   ELSE [d EXCEPT !.pc = "A1"]
  /\ UNCHANGED <<clientVars, posVars, taskVars, wsVars, storeVars, wsManager, notifications>>

\* notifyTaskStatusChanged up to its first await (lines 59-60)
NotifyTaskStatusChanged(in) ==
  /\ CanDispatch
  /\ \E taskId \in in.tasks, actor \in in.actors, org \in Orgs :
        disp' = [StartDisp("TaskStatusChanged", taskId, None, actor, org, <<>>)
                   EXCEPT !.pc = "S1"]
  /\ UNCHANGED <<clientVars, posVars, taskVars, wsVars, storeVars, wsManager, notifications>>

\* notifyTaskComment up to its first await (lines 85-86)
NotifyTaskComment(in) ==
  /\ CanDispatch
  /\ \E taskId \in in.tasks, actor \in in.actors, org \in Orgs, content \in in.texts :
        disp' = [StartDisp("TaskComment", taskId, None, actor, org, content)
                   EXCEPT !.pc = "C1"]
  /\ UNCHANGED <<clientVars, posVars, taskVars, wsVars, storeVars, wsManager, notifications>>

\* storage.getTask resolves (or rejects) and the caller runs on
GetTaskReply ==
  /\ disp.pc \in {"A2", "S1", "C1", "M2"}
  /\ \E ok \in BOOLEAN :
        LET found == TaskPresent(disp.taskId)
            assignee == IF found THEN taskAssignee[disp.taskId] ELSE None
        IN disp' =
             IF ~ok THEN Throw(Rejected(disp))
             ELSE IF ~found THEN Finish(disp)
             ELSE CASE disp.pc = "A2" ->
                         AwaitCreate(disp, "A3", disp.assigneeId, "task_assigned")
                    [] disp.pc = "S1" ->
                         IF NoStatusRecipient(assignee, disp.actor) THEN Finish(disp)
                         ELSE [disp EXCEPT !.pc = "S2", !.assigneeId = assignee]
                    [] disp.pc = "C1" ->
                         [disp EXCEPT !.pc = "C2", !.assigneeId = assignee]
                    [] OTHER -> MentionLoop(disp, 1)
  /\ UNCHANGED <<clientVars, posVars, taskVars, wsVars, storeVars, wsManager, notifications>>

\* storage.getUserById resolves (or rejects) and the caller runs on
GetUserByIdReply ==
  /\ disp.pc \in {"A1", "S2", "C2"}
  /\ \E ok \in BOOLEAN :
        LET found == disp.actor \in Users
        IN disp' =
             IF ~ok THEN Throw(Rejected(disp))
             ELSE IF ~found THEN Finish(disp)
             ELSE CASE disp.pc = "A1" -> [disp EXCEPT !.pc = "A2"]
                    [] disp.pc = "S2" ->
                         AwaitCreate(disp, "S3", disp.assigneeId, "task_status_changed")
                    [] OTHER ->
                         IF CommentRecipient(disp.assigneeId, disp.actor)
                         THEN AwaitCreate(disp, "C3", disp.assigneeId, "task_comment")
                         ELSE HandleMentions(disp)
  /\ UNCHANGED <<clientVars, posVars, taskVars, wsVars, storeVars, wsManager, notifications>>

\* storage.getUsersInOrganization resolves (or rejects): the rows come in an
\* order the query does not fix
GetUsersInOrganizationReply ==
  /\ disp.pc = "M1"
  /\ \/ disp' = Throw(Rejected(disp))
     \/ \E rows \in RowOrders({u \in Users : userOrg[u] = disp.org}) :
          disp' = [disp EXCEPT !.pc = "M2", !.orgUsers = rows]
  /\ UNCHANGED <<clientVars, posVars, taskVars, wsVars, storeVars, wsManager, notifications>>

\* mutant: the userId filter of line 204 forgotten
SendNotificationToUser_WholeOrg(s, userId, organizationId, nid) ==
  [c \in Conns |->
     IF /\ c \in connections[organizationId]
        /\ ws[c].isAuthenticated
        /\ ws[c].readyState = "OPEN"
     THEN Append(s[c], NotificationMessage(userId, organizationId, nid))
     ELSE s[c]]

\* sendNotificationToUser, lines 199-212
SendNotificationToUser(s, userId, organizationId, nid) ==
  [c \in Conns |->
     IF /\ c \in connections[organizationId]
        /\ ws[c].userId = userId
        /\ ws[c].isAuthenticated
        /\ ws[c].readyState = "OPEN"
     THEN Append(s[c], NotificationMessage(userId, organizationId, nid))
     ELSE s[c]]

\* lines 17-27: push only when a manager is attached
PushNotification(s, userId, organizationId, nid) ==
  IF wsManager THEN SendNotificationToUser(s, userId, organizationId, nid) ELSE s

\* storage.createNotification resolves (or rejects): the rest of
\* createAndSendNotification (lines 15-33) and the caller's continuation
CreateNotificationReply ==
  /\ disp.pc \in {"A3", "S3", "C3", "M3"}
  /\ \/ /\ disp' = OnCreateError(Rejected(disp))
        /\ UNCHANGED <<notifications, sent>>
     \/ /\ notifications' = Append(notifications,
              [userId |-> disp.to, type |-> disp.type, taskId |-> disp.taskId,
               triggeredByUserId |-> disp.actor, organizationId |-> disp.org])
        /\ sent' = PushNotification(sent, disp.to, disp.org, Len(notifications) + 1)
        /\ disp' = CASE disp.pc = "C3" -> HandleMentions(disp)
                      [] disp.pc = "M3" -> MentionLoop(disp, disp.i + 1)
                      [] OTHER -> Finish(disp)
  /\ UNCHANGED <<clientVars, posVars, taskVars, ws, connections, storeVars, wsManager>>

\* ------------------------------------------------------- position allocator
\* kanban-board.tsx. A position key is a string, held as its sequence of
\* characters; the column holds the keys of the tasks of one status, without
\* the task being dragged (handleDragEnd, lines 126-128).

DigitChars == <<"0", "1", "2", "3", "4", "5", "6", "7", "8", "9">>

IsDigit(ch) == \E i \in DOMAIN DigitChars : DigitChars[i] = ch

DigitValue(ch) == (CHOOSE i \in DOMAIN DigitChars : DigitChars[i] = ch) - 1

\* the collation rank of the characters a key is made of: digits, then letters
CharRank(ch) == IF IsDigit(ch) THEN DigitValue(ch) ELSE IF ch = "a" THEN 10 ELSE 11

\* a.localeCompare(b) < 0
RECURSIVE LocaleLess(_, _)
LocaleLess(a, b) ==
  IF b = <<>> THEN FALSE
  ELSE IF a = <<>> THEN TRUE
  ELSE IF a[1] = b[1] THEN LocaleLess(Tail(a), Tail(b))
  ELSE CharRank(a[1]) < CharRank(b[1])

\* String(n) for n >= 0
RECURSIVE NumberToString(_)
NumberToString(n) ==
  IF n < 10 THEN <<DigitChars[n + 1]>>
  ELSE Append(NumberToString(n \div 10), DigitChars[(n % 10) + 1])

\* str.padStart(width, '0')
RECURSIVE PadStart(_, _)
PadStart(str, width) ==
  IF Len(str) >= width THEN str ELSE PadStart(<<"0">> \o str, width)

\* parseInt(str): the value of the leading run of digits, NaN if there is none
NaN == -1

RECURSIVE ParseDigits(_, _)
ParseDigits(str, acc) ==
  IF str = <<>> \/ ~IsDigit(str[1]) THEN acc
  ELSE ParseDigits(Tail(str), 10 * acc + DigitValue(str[1]))

ParseInt(str) ==
  IF str = <<>> \/ ~IsDigit(str[1]) THEN NaN ELSE ParseDigits(str, 0)

\* number || fallback: NaN and 0 are falsy
NumOrElse(value, fallback) ==
  IF value = NaN \/ value = 0 THEN fallback ELSE value

\* string || fallback: undefined and the empty string are falsy
StrOrElse(value, fallback) ==
  IF value = <<>> THEN fallback ELSE value

\* str.slice(1)
Slice1(str) == IF str = <<>> THEN <<>> ELSE Tail(str)

\* sortedTasks[i]?.position, the empty string standing for undefined
PositionAt(sortedTasks, i) ==
  IF i + 1 \in DOMAIN sortedTasks THEN sortedTasks[i + 1] ELSE <<>>

\* [...].sort((a, b) => a.position.localeCompare(b.position)): a stable sort
RECURSIVE InsertSorted(_, _)
InsertSorted(sorted, key) ==
  IF sorted = <<>> THEN <<key>>
  ELSE IF LocaleLess(key, sorted[1]) THEN <<key>> \o sorted
  ELSE <<sorted[1]>> \o InsertSorted(Tail(sorted), key)

RECURSIVE SortByPosition(_)
SortByPosition(tasks) ==
  IF tasks = <<>> THEN <<>>
  ELSE InsertSorted(SortByPosition(SubSeq(tasks, 1, Len(tasks) - 1)), tasks[Len(tasks)])

MakeKey(newNum) == <<"a">> \o PadStart(NumberToString(newNum), PadWidth)

Max(a, b) == IF a >= b THEN a ELSE b

generatePosition(columnTasks, overIndex) ==
  LET sortedTasks == SortByPosition(SelectSeq(columnTasks, LAMBDA p : p # <<>>))
  IN IF overIndex <= 0
     THEN LET firstPos == StrOrElse(PositionAt(sortedTasks, 0), <<"b", "0", "0", "0", "0">>)
              firstNum == NumOrElse(ParseInt(Slice1(firstPos)), PositionStep)
          IN MakeKey(Max(firstNum - PositionStep, 0))
     ELSE IF overIndex >= Len(sortedTasks)
     THEN LET lastPos == StrOrElse(PositionAt(sortedTasks, Len(sortedTasks) - 1), MakeKey(0))
              lastNum == NumOrElse(ParseInt(Slice1(lastPos)), 0)
          IN MakeKey(lastNum + PositionStep)
     ELSE LET beforePos == StrOrElse(PositionAt(sortedTasks, overIndex - 1), MakeKey(0))
              afterPos == StrOrElse(PositionAt(sortedTasks, overIndex), MakeKey(BetweenDefault))
              beforeNum == NumOrElse(ParseInt(Slice1(beforePos)), 0)
              afterNum == NumOrElse(ParseInt(Slice1(afterPos)), BetweenDefault)
          IN MakeKey((beforeNum + afterNum) \div 2)

\* active is the position of the dragged task when it belongs to the column,
\* issued whether reorderMutation.mutate was called (lines 133-139)
NoAllocation ==
  [op |-> "none", before |-> <<>>, after |-> <<>>, key |-> <<>>,
   active |-> <<>>, issued |-> FALSE]

\* handleDragEnd drops a task of another column at overIndex: the key comes
\* from generatePosition (line 130) and reorderTask stores it on the task
\* (storage.ts 185-202), which the next render sorts into the column
DropAt(op, overIndex) ==
  LET key == generatePosition(column, overIndex)
  IN /\ allocated' = [op |-> op, before |-> PositionAt(column, overIndex - 1),
                      after |-> PositionAt(column, overIndex), key |-> key,
                      active |-> <<>>, issued |-> TRUE]
     /\ column' = SortByPosition(Append(column, key))
     /\ UNCHANGED <<clientVars, taskVars, wsVars, storeVars, dispVars>>

\* dropped on the first task of the column: overIndex = 0 (lines 112-123)
InsertAtStart ==
  /\ Len(column) < MaxColumn
  /\ DropAt("start", 0)

\* dropped on a later task of the column
InsertBetween(i) ==
  /\ Len(column) < MaxColumn
  /\ i \in 1..(Len(column) - 1)
  /\ DropAt("between", i)

\* dropped on the column itself: overIndex = columnTasks.length (lines 107-111)
InsertAtEnd ==
  /\ Len(column) < MaxColumn
  /\ DropAt("end", Len(column))

\* the tasks of the column other than the dragged one (lines 118-120, 126-128)
ColumnWithout(tasks, i) ==
  SubSeq(tasks, 1, i - 1) \o SubSeq(tasks, i + 1, Len(tasks))

\* line 133: only update if position or status changed
ShouldReorder(activePosition, newPosition, statusChanged) ==
  StrOrElse(activePosition, MakeKey(0)) # newPosition \/ statusChanged

\* handleDragEnd with over.id = active.id for the i-th task of the column:
\* overTask is the dragged task, newStatus its status; columnTasks leaves the
\* dragged task out, so findIndex gives -1 and overIndex becomes
\* columnTasks.length (lines 121-122). When the request is issued reorderTask
\* stores the key and the next render sorts the task into the column.
DropOnSelf(i) ==
  /\ i \in 1..Len(column)
  /\ LET active == column[i]
         columnTasks == ColumnWithout(column, i)
         overIndex == Len(columnTasks)
         key == generatePosition(columnTasks, overIndex)
         issued == ShouldReorder(active, key, FALSE)
     IN /\ NumOrElse(ParseInt(Slice1(key)), 0) <= MaxKey
        /\ allocated' = [op |-> "self", before |-> PositionAt(columnTasks, overIndex - 1),
                         after |-> <<>>, key |-> key, active |-> active,
                         issued |-> issued]
        /\ column' = IF issued THEN SortByPosition(Append(columnTasks, key))
                      ELSE column
  /\ UNCHANGED <<clientVars, taskVars, wsVars, storeVars, dispVars>>

\* POST /api/tasks: the new row takes the default position of the schema
CreateTaskInColumn ==
  /\ Len(column) < MaxColumn
  /\ column' = SortByPosition(Append(column, DefaultPosition))
  /\ allocated' = NoAllocation
  /\ UNCHANGED <<clientVars, taskVars, wsVars, storeVars, dispVars>>

\* ------------------------------------------------------------- reorderTask
\* storage.ts lines 185-202. Dates are readings of a clock that advances with
\* every call; NoDate is the null of a timestamp column.
NoDate == 0

NoStatus == ""

Statuses == {"todo", "in_progress", "done"}

\* a row as createTask leaves it: the schema defaults (schema.ts 60-70)
NewTaskRow ==
  [status |-> "todo", position |-> DefaultPosition, completedAt |-> NoDate,
   updatedAt |-> NoDate]

NoReorder ==
  [taskId |-> None, newPosition |-> <<>>, newStatus |-> NoStatus, from |-> NoStatus]

\* mutant: the else branch of lines 191-193 forgotten, a date in every case
CompletedAtFor_Always(newStatus, date) ==
  date

\* lines 189-193: the completedAt of the update when newStatus is given
CompletedAtFor(newStatus, date) ==
  IF newStatus = "done" THEN date ELSE NoDate

\* lines 186-194: the columns the update sets, applied to the row
ReorderUpdates(row, newPosition, newStatus, date) ==
  LET moved == [row EXCEPT !.position = newPosition, !.updatedAt = date]
  IN IF newStatus # NoStatus
     THEN [moved EXCEPT !.status = newStatus,
                        !.completedAt = CompletedAtFor(newStatus, date)]
     ELSE moved

\* storage.reorderTask(taskId, newPosition, newStatus): one UPDATE statement
\* (lines 196-200), which changes nothing when the row is gone
ReorderTask(taskId, newPosition, newStatus) ==
  /\ now <= MaxWrites
  /\ taskRows' = IF taskId \in deleted THEN taskRows
                 ELSE [taskRows EXCEPT ![taskId] =
                         ReorderUpdates(@, newPosition, newStatus, now)]
  /\ reordered' = [taskId |-> taskId, newPosition |-> newPosition,
                   newStatus |-> newStatus, from |-> taskRows[taskId].status]
  /\ now' = now + 1
  /\ UNCHANGED <<clientVars, posVars, wsVars, storeVars, dispVars>>

\* ------------------------------------------- POST and PATCH /api/tasks
\* websocket.ts lines 427-458 and 459-522 with storage.createTask and
\* storage.updateTask (storage.ts 164-179). Of a request body only the status
\* matters to the columns kept in taskRows; NoStatus is a body without status.

\* an update object: the status, when given, and the completedAt key, when set
NoUpdates == [status |-> NoStatus, hasCompletedAt |-> FALSE, completedAt |-> NoDate]

\* insertTaskSchema.parse then storage.createTask (lines 433-447): the row has
\* the status of the body or the default, and completedAt, which the schema
\* omits (schema.ts 173-178), is null
CreateRow(bodyStatus) ==
  [NewTaskRow EXCEPT !.status = IF bodyStatus = NoStatus THEN @ ELSE bodyStatus]

\* lines 483-490: the whitelisted fields of the body
WhitelistedUpdates(bodyStatus) ==
  [NoUpdates EXCEPT !.status = bodyStatus]

\* lines 500-505: completedAt set server-side from the status of the body and
\* the status of the row read at line 465
WithCompletedAt(updates, rowStatus, date) ==
  IF updates.status = "done" /\ rowStatus # "done"
  THEN [updates EXCEPT !.hasCompletedAt = TRUE, !.completedAt = date]
  ELSE IF updates.status # "done"
       THEN [updates EXCEPT !.hasCompletedAt = TRUE, !.completedAt = NoDate]
       ELSE updates

\* updateTaskSchema.parse (lines 507-510): a zod object schema drops the keys
\* it does not declare, and updateTaskSchema is insertTaskSchema.partial()
\* plus id (schema.ts 180-182), so it has no completedAt
ParseUpdateTask(updates) ==
  [updates EXCEPT !.hasCompletedAt = FALSE, !.completedAt = NoDate]

\* storage.updateTask (storage.ts 172-179): set({...updates, updatedAt})
UpdateTaskRow(row, updates, date) ==
  [row EXCEPT !.status = IF updates.status = NoStatus THEN @ ELSE updates.status,
              !.completedAt = IF updates.hasCompletedAt THEN updates.completedAt ELSE @,
              !.updatedAt = date]

\* POST /api/tasks by a manager or admin of the organization: a new row
CreateTask(t, bodyStatus) ==
  /\ now <= MaxWrites
  /\ t \in deleted
  /\ deleted' = deleted \ {t}
  /\ taskRows' = [taskRows EXCEPT ![t] = CreateRow(bodyStatus)]
  /\ now' = now + 1
  /\ UNCHANGED <<clientVars, posVars, reordered, wsVars, userOrg, nextOrg, dispVars>>

\* PATCH /api/tasks/:taskId by a user allowed to update the task (lines
\* 465-480 answer 404 and 403 otherwise, before any write)
PatchTask(t, bodyStatus) ==
  /\ now <= MaxWrites
  /\ t \notin deleted
  /\ LET updates == WithCompletedAt(WhitelistedUpdates(bodyStatus),
                                    taskRows[t].status, now)
     IN taskRows' = [taskRows EXCEPT ![t] =
                       UpdateTaskRow(@, ParseUpdateTask(updates), now)]
  /\ now' = now + 1
  /\ UNCHANGED <<clientVars, posVars, reordered, wsVars, storeVars, dispVars>>

\* ------------------------------------------------------------ useWebSocket
\* client/src/hooks/useWebSocket.ts. One instance of the hook. A socket is
\* named by its index in socks; 0 is the null of a ref. Each socket schedules
\* at most one reconnect timer, in its onclose, so the timer is kept with the
\* socket and reconnectTimeoutRef holds the index of that socket. closure is
\* the value of isAuthenticated && user?.organizationId in the render whose
\* connect created the socket: onclose and the timer callback read that
\* render's values, the refs are shared by all renders.

\* what ends a socket: the upgrade refused by verifyClient (websocket.ts lines
\* 39-67), the server not reached, a close by the server with one of its
\* codes, a drop of an open connection, the close the client itself began
ConnectingEnds == {"refused", "unreachable"}

OpenEnds == {"auth1008", "error1011", "bad1003", "dropped"}

CloseKinds == ConnectingEnds \cup OpenEnds \cup {"client"}

\* CloseEvent.code of a connection that ended without a close frame
AbnormalClosure == 1006

\* event.code as onclose gets it (line 94): the code of the server's close
\* frame, the code of the client's own close once the connection had opened,
\* and 1006 when no close frame was received
CloseCodeSeen(kind, established) ==
  CASE kind = "auth1008" -> CloseAuthRequired
    [] kind = "error1011" -> CloseServerError
    [] kind = "bad1003" -> CloseBadFormat
    [] kind = "client" -> IF established THEN NormalClosure ELSE AbnormalClosure
    [] OTHER -> AbnormalClosure

NewClient ==
  [isAuthenticated |-> FALSE, organizationId |-> NoOrg, mounted |-> TRUE,
   wsRef |-> 0, reconnectTimeoutRef |-> 0, reconnectAttempts |-> 0,
   disconnected |-> TRUE, lastKind |-> None]

NewWebSocket(closure) ==
  [readyState |-> "CONNECTING", closure |-> closure, established |-> FALSE,
   timer |-> FALSE, delay |-> 0]

\* the values useAuth can give the hook
ClientProps ==
  {<<FALSE, NoOrg>>, <<TRUE, NoOrg>>, <<TRUE, 1>>, <<TRUE, 2>>}

\* lines 21 and 99: isAuthenticated && user?.organizationId
CanConnect(isAuthenticated, organizationId) ==
  isAuthenticated /\ organizationId # NoOrg

Min(a, b) == IF a <= b THEN a ELSE b

\* mutant: a fixed delay
ReconnectDelay_Fixed(attempts) ==
  BaseDelay

\* line 104
ReconnectDelay(attempts) ==
  Min(BaseDelay * 2 ^ attempts, MaxDelay)

\* lines 99-102
ShouldReconnect(closure, code, attempts) ==
  /\ closure
  /\ code # CloseAuthRequired
  /\ code # CloseServerError
  /\ attempts < maxReconnectAttempts

\* connect of a render with the given closure (lines 20-124): a pair of the
\* client and the sockets after the call
Connect(c, ss, closure) ==
  IF ~closure THEN [c |-> c, ss |-> ss]
  ELSE IF c.wsRef # 0 /\ ss[c.wsRef].readyState = "OPEN" THEN [c |-> c, ss |-> ss]
  ELSE [c |-> [c EXCEPT !.wsRef = Len(ss) + 1],
        ss |-> Append(ss, NewWebSocket(closure))]

\* WebSocket.close(): a socket that is connecting or open starts closing
CloseWebSocket(sock) ==
  [sock EXCEPT !.readyState =
     IF @ \in {"CONNECTING", "OPEN"} THEN "CLOSING" ELSE @]

\* disconnect (lines 126-140)
Disconnect(c, ss) ==
  LET cleared == IF c.reconnectTimeoutRef # 0
                 THEN [ss EXCEPT ![c.reconnectTimeoutRef].timer = FALSE,
                                 ![c.reconnectTimeoutRef].delay = 0]
                 ELSE ss
      closed == IF c.wsRef # 0
                THEN [cleared EXCEPT ![c.wsRef] = CloseWebSocket(@)]
                ELSE cleared
  IN [c |-> [c EXCEPT !.reconnectTimeoutRef = 0, !.wsRef = 0,
                      !.reconnectAttempts = 0, !.disconnected = TRUE],
      ss |-> closed]

\* the effect of lines 153-163 for the props of a render
RunEffect(c, ss) ==
  IF CanConnect(c.isAuthenticated, c.organizationId)
  THEN Connect([c EXCEPT !.disconnected = FALSE], ss, TRUE)
  ELSE Disconnect(c, ss)

\* useAuth gives new values and a dependency of the effect has changed: the
\* cleanup of the last effect runs (lines 160-162), then the effect
PropsChange(isAuthenticated, organizationId, limit) ==
  /\ client.mounted
  /\ <<isAuthenticated, organizationId>> \in ClientProps
  /\ <<isAuthenticated, organizationId>> # <<client.isAuthenticated, client.organizationId>>
  /\ LET cleaned == Disconnect(client, socks)
         rendered == [cleaned.c EXCEPT !.isAuthenticated = isAuthenticated,
                                       !.organizationId = organizationId]
         after == RunEffect(rendered, cleaned.ss)
     IN /\ Len(after.ss) <= limit
        /\ client' = after.c
        /\ socks' = after.ss
  /\ UNCHANGED <<posVars, taskVars, wsVars, storeVars, dispVars>>

\* the component unmounts: the cleanups of both effects (lines 160-162, 167-169)
Unmount ==
  /\ client.mounted
  /\ LET once == Disconnect(client, socks)
         twice == Disconnect(once.c, once.ss)
     IN /\ client' = [twice.c EXCEPT !.mounted = FALSE]
        /\ socks' = twice.ss
  /\ UNCHANGED <<posVars, taskVars, wsVars, storeVars, dispVars>>

\* the server accepted the upgrade: onopen (lines 39-52)
SocketOpen(s) ==
  /\ s \in DOMAIN socks
  /\ socks[s].readyState = "CONNECTING"
  /\ socks' = [socks EXCEPT ![s].readyState = "OPEN", ![s].established = TRUE]
  /\ client' = [client EXCEPT !.reconnectAttempts = 0]
  /\ UNCHANGED <<posVars, taskVars, wsVars, storeVars, dispVars>>

\* the socket ends and its close event is delivered: onclose (lines 93-112)
SocketClose(s, kind) ==
  /\ s \in DOMAIN socks
  /\ kind \in ConnectingEnds => socks[s].readyState = "CONNECTING"
  /\ kind \in OpenEnds => socks[s].readyState = "OPEN"
  /\ kind = "client" => socks[s].readyState = "CLOSING"
  /\ LET code == CloseCodeSeen(kind, socks[s].established)
         again == ShouldReconnect(socks[s].closure, code, client.reconnectAttempts)
     IN /\ socks' = [socks EXCEPT
                       ![s].readyState = "CLOSED",
                       ![s].established = FALSE,
                       ![s].timer = again,
                       ![s].delay = IF again THEN ReconnectDelay(client.reconnectAttempts)
                                    ELSE 0]
        /\ client' = [client EXCEPT
                        !.wsRef = 0,
                        !.reconnectTimeoutRef = IF again THEN s ELSE @,
                        !.lastKind = kind]
  /\ UNCHANGED <<posVars, taskVars, wsVars, storeVars, dispVars>>

\* the reconnect timer of a socket fires: the callback of lines 107-110
TimerFires(s, limit) ==
  /\ s \in DOMAIN socks
  /\ socks[s].timer
  /\ LET counted == [client EXCEPT !.reconnectAttempts = @ + 1]
         fired == [socks EXCEPT ![s].timer = FALSE, ![s].delay = 0]
         after == Connect(counted, fired, socks[s].closure)
     IN /\ Len(after.ss) <= limit
        /\ client' = after.c
        /\ socks' = after.ss
  /\ UNCHANGED <<posVars, taskVars, wsVars, storeVars, dispVars>>

\* ------------------------------------------------------------ specifications
InitServer ==
  /\ ws = [c \in Conns |-> NewSocket]
  /\ sent = [c \in Conns |-> <<>>]
  /\ connections = [o \in Orgs |-> {}]
  /\ userOrg = [u \in Users |-> IF u = "u3" THEN NoOrg ELSE 1]
  /\ nextOrg = 2
  /\ deleted = {}
  /\ wsManager = FALSE
  /\ notifications = <<>>
  /\ disp = IdleDisp
  /\ taskRows = [t \in TaskIds |-> NewTaskRow]
  /\ now = 1
  /\ reordered = NoReorder
  /\ client = NewClient
  /\ socks = <<>>

Init ==
  /\ InitServer
  /\ column = <<>>
  /\ allocated = NoAllocation

\* every handshake, no dispatch
Next ==
  \/ \E c \in Conns : Handshake(c, Origins, Cookies)
  \/ \E c \in Conns : SessionStoreReply(c, BOOLEAN)
  \/ \E c \in Conns : UserStoreReply(c, BOOLEAN)
  \/ \E c \in Conns : CloseEvent(c)
  \/ \E u \in Users : CreateOrganization(u)

Spec == Init /\ [][Next]_vars

Dispatch(in) ==
  \/ NotifyTaskAssigned(in)
  \/ NotifyTaskStatusChanged(in)
  \/ NotifyTaskComment(in)
  \/ GetTaskReply
  \/ GetUserByIdReply
  \/ GetUsersInOrganizationReply
  \/ CreateNotificationReply

\* the dispatcher alone, over every input and every text of up to MaxTokens
\* tokens
NotifyInputs ==
  [tasks |-> TaskInputs, assignees |-> Users, actors |-> Actors, texts |-> Texts(MaxTokens)]

NextNotify ==
  \/ \E u \in Users : CreateOrganization(u)
  \/ \E t \in TaskIds : DeleteTask(t)
  \/ Dispatch(NotifyInputs)

SpecNotify == Init /\ [][NextNotify]_vars

\* dispatch against live connections: handshakes of the sessions of u1 and u2,
\* u1 free to move to a new organization, events on task t1 (assignee u1) by
\* u2, commented without a mention or with the assignee mentioned
PushCookies ==
  {<<"s:", s, ".", "sig">> : s \in {"s1", "s2"}}

PushInputs ==
  [tasks |-> {"t1"}, assignees |-> {"u1"}, actors |-> {"u2"},
   texts |-> {<<"y">>, <<"@", Quote, "a", " ", "B", Quote>>}]

NextPush ==
  \/ \E c \in Conns : Handshake(c, {"ok"}, PushCookies)
  \/ \E c \in Conns : SessionStoreReply(c, {FALSE})
  \/ \E c \in Conns : UserStoreReply(c, {FALSE})
  \/ \E c \in Conns : CloseEvent(c)
  \/ CreateOrganization("u1")
  \/ SetWebSocketManager
  \/ Dispatch(PushInputs)

SpecPush == Init /\ [][NextPush]_vars

\* comments fanned out to live connections: handshakes of the sessions of u1
\* and u2, comments on task t1 (assignee u1) by u2 or by u3, with up to two
\* mentions
FanOutTexts ==
  { <<"y">>,
    Join(<<<<"@", "A", "b">>, <<"@", Quote, "a", " ", "B", Quote>>>>),
    Join(<<<<"@", Quote, "a", " ", "B", Quote>>, <<"@", "A", "b">>>>),
    Join(<<<<"@", "x">>, <<"@", "A", "b">>>>) }

FanOutInputs ==
  [tasks |-> {"t1"}, assignees |-> {"u1"}, actors |-> {"u2", "u3"},
   texts |-> FanOutTexts]

NextFanOut ==
  \/ \E c \in Conns : Handshake(c, {"ok"}, PushCookies)
  \/ \E c \in Conns : SessionStoreReply(c, {FALSE})
  \/ \E c \in Conns : UserStoreReply(c, {FALSE})
  \/ SetWebSocketManager
  \/ NotifyTaskComment(FanOutInputs)
  \/ GetTaskReply
  \/ GetUserByIdReply
  \/ GetUsersInOrganizationReply
  \/ CreateNotificationReply

SpecFanOut == Init /\ [][NextFanOut]_vars

\* the position allocator alone, from columns of up to two keys
InitNums ==
  (0..MaxDense) \cup {PositionStep - 1, PositionStep, PositionStep + 1,
                      BetweenDefault, 9 * PositionStep, 10 * PositionStep - 1}

InitKeys == {MakeKey(n) : n \in InitNums} \cup {DefaultPosition}

InitColumns ==
  {<<>>} \cup {<<k>> : k \in InitKeys}
         \cup {<<pair[1], pair[2]>> :
                 pair \in {q \in InitKeys \X InitKeys : LocaleLess(q[1], q[2])}}

InitPos ==
  /\ InitServer
  /\ column \in InitColumns
  /\ allocated = NoAllocation

NextPos ==
  \/ InsertAtStart
  \/ \E i \in 1..MaxColumn : InsertBetween(i)
  \/ InsertAtEnd
  \/ \E i \in 1..MaxColumn : DropOnSelf(i)
  \/ CreateTaskInColumn

SpecPos == InitPos /\ [][NextPos]_vars

\* reorders of the two tasks, with deletions
ReorderPositions == {MakeKey(0), MakeKey(PositionStep)}

NextReorder ==
  \/ \E t \in TaskIds, p \in ReorderPositions, st \in Statuses \cup {NoStatus} :
        ReorderTask(t, p, st)
  \/ \E t \in TaskIds : DeleteTask(t)

SpecReorder == Init /\ [][NextReorder]_vars

\* the task table from empty: creations, updates, reorders and deletions
InitTasks ==
  /\ ws = [c \in Conns |-> NewSocket]
  /\ sent = [c \in Conns |-> <<>>]
  /\ connections = [o \in Orgs |-> {}]
  /\ userOrg = [u \in Users |-> IF u = "u3" THEN NoOrg ELSE 1]
  /\ nextOrg = 2
  /\ deleted = TaskIds
  /\ wsManager = FALSE
  /\ notifications = <<>>
  /\ disp = IdleDisp
  /\ taskRows = [t \in TaskIds |-> NewTaskRow]
  /\ now = 1
  /\ reordered = NoReorder
  /\ column = <<>>
  /\ allocated = NoAllocation
  /\ client = NewClient
  /\ socks = <<>>

NextTasks ==
  \/ \E t \in TaskIds, st \in Statuses \cup {NoStatus} : CreateTask(t, st)
  \/ \E t \in TaskIds, st \in Statuses \cup {NoStatus} : PatchTask(t, st)
  \/ \E t \in TaskIds, p \in ReorderPositions, st \in Statuses \cup {NoStatus} :
        ReorderTask(t, p, st)
  \/ \E t \in TaskIds : DeleteTask(t)

SpecTasks == InitTasks /\ [][NextTasks]_vars

\* the life of the sockets: handshakes of a member of organization 1 and of
\* a user without organization, client messages, errors and closes
SocketCookies == {<<"s:", sid, ".", "sig">> : sid \in {"s1", "s3"}}

NextSocket ==
  \E c \in Conns :
        \/ Handshake(c, {"ok"}, SocketCookies)
        \/ SessionStoreReply(c, {FALSE})
        \/ UserStoreReply(c, {FALSE})
        \/ ClientMessage(c, Payloads)
        \/ ErrorEvent(c)
        \/ CloseEvent(c)

SpecSocket == Init /\ [][NextSocket]_vars

\* authenticated connections and everything a client can send on them,
\* messages with identity fields included
NextIdentity ==
  \E c \in Conns :
    \/ Handshake(c, {"ok"}, SocketCookies)
    \/ SessionStoreReply(c, {FALSE})
    \/ UserStoreReply(c, {FALSE})
    \/ ClientMessage(c, Payloads \cup IdentityPayloads)
    \/ CloseEvent(c)

SpecIdentity == Init /\ [][NextIdentity]_vars

\* connections of the assignee that open, ping and close while a comment on
\* the assignee's task is dispatched
FirstCookies == {<<"s:", "s1", ".", "sig">>}

NextFirst ==
  \/ \E c \in Conns :
        \/ Handshake(c, {"ok"}, FirstCookies)
        \/ SessionStoreReply(c, {FALSE})
        \/ UserStoreReply(c, {FALSE})
        \/ ClientMessage(c, {"ping"})
        \/ CloseEvent(c)
  \/ SetWebSocketManager
  \/ Dispatch(PushInputs)

SpecFirst == Init /\ [][NextFirst]_vars

\* the handshake with its progress: the database answers storage.getUser,
\* while nothing makes the session store call back and nothing makes a
\* client close; handleConnection sets no timer
NextLive ==
  \E c \in Conns :
    \/ Handshake(c, {"ok"}, SocketCookies)
    \/ SessionStoreReply(c, BOOLEAN)
    \/ UserStoreReply(c, BOOLEAN)
    \/ CloseEvent(c)

SpecLive ==
  /\ Init
  /\ [][NextLive]_vars
  /\ \A c \in Conns : WF_vars(UserStoreReply(c, BOOLEAN))

\* the keep-alive: clients ping while they live and may go away silently;
\* the stores answer every lookup, and a close the server began completes
NextHeartbeat ==
  \E c \in Conns :
    \/ Handshake(c, {"ok"}, SocketCookies)
    \/ SessionStoreReply(c, {FALSE})
    \/ UserStoreReply(c, {FALSE})
    \/ ClientMessage(c, {"ping"})
    \/ PeerGone(c)
    \/ CloseEvent(c)

SpecHeartbeat ==
  /\ Init
  /\ [][NextHeartbeat]_vars
  /\ \A c \in Conns : /\ WF_vars(SessionStoreReply(c, {FALSE}))
                       /\ WF_vars(UserStoreReply(c, {FALSE}))
                       /\ WF_vars(ClientMessage(c, {"ping"}))

\* one hook instance through every change of its props, against a server that
\* may accept, refuse or close
NextClient ==
  \/ \E p \in ClientProps : PropsChange(p[1], p[2], MaxSockets)
  \/ Unmount
  \/ \E s \in 1..MaxSockets : SocketOpen(s)
  \/ \E s \in 1..MaxSockets, kind \in CloseKinds : SocketClose(s, kind)
  \/ \E s \in 1..MaxSockets : TimerFires(s, MaxSockets)

SpecClient == Init /\ [][NextClient]_vars

\* the backoff: a member logs in and out, the server refuses, accepts or
\* drops, often enough for the attempts to run out
BackoffProps == {<<FALSE, NoOrg>>, <<TRUE, 1>>}

BackoffKinds == {"refused", "dropped", "client"}

NextBackoff ==
  \/ \E p \in BackoffProps : PropsChange(p[1], p[2], MaxRetried)
  \/ \E s \in 1..MaxRetried : SocketOpen(s)
  \/ \E s \in 1..MaxRetried, kind \in BackoffKinds : SocketClose(s, kind)
  \/ \E s \in 1..MaxRetried : TimerFires(s, MaxRetried)

SpecBackoff == Init /\ [][NextBackoff]_vars

\* ------------------------------------------------------------------ claims
Registered(c) ==
  \E o \in Orgs : c \in connections[o]

MessagesOf(c, type) ==
  {i \in 1..Len(sent[c]) : sent[c][i].type = type}

PushCount(c) ==
  Cardinality(MessagesOf(c, "notification"))

\* c is an open authenticated connection registered for user u in organization o
LiveFor(c, u, o) ==
  /\ c \in connections[o]
  /\ ws[c].userId = u
  /\ ws[c].isAuthenticated
  /\ ws[c].readyState = "OPEN"

RecordsOf(u) ==
  {i \in 1..Len(notifications) : notifications[i].userId = u}

MentionRecordsOf(u) ==
  {i \in RecordsOf(u) : notifications[i].type = "mention"}

CreatePcs == {"A3", "S3", "C3", "M3"}

\* C1: a connection is in the registry, or has been sent the "connection"
\* message, only if the session store returned a session with claims and the
\* user store returned a user with an organization.
C1_AdmittedOnlyAfterValidation ==
  \A c \in Conns :
    (Registered(c) \/ MessagesOf(c, "connection") # {}) =>
      /\ ws[c].hasSessionData
      /\ ws[c].claimsSub # None
      /\ ws[c].userFound
      /\ ws[c].userOrganizationId # NoOrg
      /\ ws[c].userId = ws[c].claimsSub
      /\ ws[c].organizationId = ws[c].userOrganizationId

\* one connection admitted and confirmed while another, of a user without an
\* organization, was turned away
C1_Witness ==
  \E c, d \in Conns :
    /\ Registered(c) /\ MessagesOf(c, "connection") # {}
    /\ ws[d].phase = "done" /\ ws[d].userFound /\ ws[d].userOrganizationId = NoOrg
    /\ ~Registered(d) /\ sent[d] = <<>>

\* the handshake of c failed authentication: no cookie, no session data (a
\* miss or a store error), or a session without claims
AuthenticationFailed(c) ==
  \/ ws[c].phase = "rejected" /\ ws[c].log = "no session cookie"
  \/ ws[c].phase = "done" /\ ~ws[c].hasSessionData
  \/ ws[c].phase = "done" /\ ws[c].hasSessionData /\ ws[c].claimsSub = None

\* C2: every handshake that fails authentication is closed by the server with
\* code 1008.
C2_AuthFailureClosesWith1008 ==
  \A c \in Conns : AuthenticationFailed(c) => ws[c].closeCode = CloseAuthRequired

\* C3: a notification push for user U in organization O reaches only
\* connections whose server-resolved identity is (U, O).
C3_PushIsolation ==
  \A c \in Conns : \A i \in MessagesOf(c, "notification") :
    /\ ws[c].userId = sent[c][i].userId
    /\ ws[c].organizationId = sent[c][i].organizationId

\* a push reached one connection of a user while a second open connection of
\* the same user, registered under another organization, got none
C3_Witness ==
  \E c, d \in Conns :
    /\ PushCount(c) > 0
    /\ ws[d].userId = ws[c].userId /\ ws[d].organizationId # ws[c].organizationId
    /\ Registered(d) /\ ws[d].readyState = "OPEN" /\ PushCount(d) = 0

\* C4: whenever the call persists a notification for (U, O), every open
\* authenticated connection registered for (U, O) has then received exactly
\* one notification push for the event.
C4_ExactlyOnePush ==
  [][\A c \in Conns :
       (/\ Len(notifications') > Len(notifications)
        /\ wsManager
        /\ LiveFor(c, disp.to, disp.org)) => PushCount(c)' = 1]_vars

\* the members the mention tokens of the finished comment call resolved to
ResolvedByMentions ==
  {u \in Users \ {disp.actor} :
     \E j \in 1..Len(disp.mentions) : FindUser(disp.orgUsers, disp.mentions[j]) = u}

CommentCallCompleted ==
  disp.kind = "TaskComment" /\ disp.pc = "done" /\ ~disp.error /\ disp.inLoop

\* C5: a completed TaskComment call has persisted exactly one mention record
\* for every member its mention tokens resolved to, also when several tokens
\* resolve to the same member.
C5_OneRecordPerRecipient ==
  CommentCallCompleted =>
    \A u \in ResolvedByMentions : Cardinality(MentionRecordsOf(u)) = 1

\* C6: every push carries a record that is in the table; a rejected
\* createNotification rejects the call and pushes nothing; a resolved one
\* appends exactly the record, keeps the call free of error whether or not
\* anything was pushed, and no record ever leaves the table.
C6_PersistBeforePush ==
  [][/\ \A c \in Conns : \A i \in 1..Len(sent'[c]) :
          sent'[c][i].type = "notification" =>
            /\ sent'[c][i].nid \in 1..Len(notifications')
            /\ notifications'[sent'[c][i].nid].userId = sent'[c][i].userId
            /\ notifications'[sent'[c][i].nid].organizationId = sent'[c][i].organizationId
     /\ SubSeq(notifications', 1, Len(notifications)) = notifications
     /\ (disp.pc \in CreatePcs /\ disp' # disp) =>
          IF notifications' = notifications
          THEN disp'.error /\ disp'.pc = "done" /\ sent' = sent
          ELSE /\ ~disp'.error
               /\ Len(notifications') = Len(notifications) + 1
               /\ notifications'[Len(notifications')].userId = disp.to]_vars

\* createNotification rejected for a recipient who has an open registered
\* connection, with the manager attached: nothing persisted, nothing pushed
C6_Witness ==
  /\ disp.pc = "done" /\ disp.error /\ disp.to # None
  /\ notifications = <<>> /\ wsManager
  /\ \E c \in Conns : LiveFor(c, disp.to, disp.org) /\ PushCount(c) = 0

\* C7: no record notifies a user of their own action; a self-assignment and
\* a status change of a task without assignee, or by its assignee, persist
\* nothing.
C7_NoSelfNotification ==
  /\ \A i \in 1..Len(notifications) :
        /\ notifications[i].userId # notifications[i].triggeredByUserId
        /\ notifications[i].userId # None
  /\ (disp.kind = "TaskAssigned" /\ disp.assigneeId = disp.actor) => notifications = <<>>
  /\ (/\ disp.kind = "TaskStatusChanged"
      /\ \/ disp.taskId \notin TaskIds
         \/ taskAssignee[disp.taskId] \in {None, disp.actor}) => notifications = <<>>

\* a comment whose author mentioned themself and somebody else: only the
\* other member has a record
C7_Witness ==
  /\ CommentCallCompleted
  /\ \E j \in 1..Len(disp.mentions) : FindUser(disp.orgUsers, disp.mentions[j]) = disp.actor
  /\ \E i \in 1..Len(notifications) : notifications[i].type = "mention"

\* the members of the event's organization, as the store listed them
MembersListed ==
  {disp.orgUsers[i] : i \in 1..Len(disp.orgUsers)}

\* C8 as stated: every member other than the actor that a mention token
\* matches has a mention record.
C8_EveryMatchNotified ==
  CommentCallCompleted =>
    \A j \in 1..Len(disp.mentions) : \A u \in MembersListed \ {disp.actor} :
      MentionMatches(u, disp.mentions[j]) => MentionRecordsOf(u) # {}

\* the first listed member that matches the token, None when none does
FirstMatch(mention) ==
  LET hits == {i \in 1..Len(disp.orgUsers) : MentionMatches(disp.orgUsers[i], mention)}
  IN IF hits = {} THEN None
     ELSE disp.orgUsers[CHOOSE i \in hits : \A j \in hits : j >= i]

\* the tokens whose first match is a member other than the actor
NotifyingTokens ==
  {j \in 1..Len(disp.mentions) :
     FirstMatch(disp.mentions[j]) \notin {None, disp.actor}}

\* What handleMentions does instead: each token notifies the first listed
\* member it matches, if that member is not the actor. The mention records
\* are, in text order, one per such token, after the assignee's task_comment
\* record if there is one; a call rejects only when a store call rejected.
MentionRecordsFollowFirstMatch ==
  /\ disp.error => disp.rejected
  /\ CommentCallCompleted =>
        LET base == IF CommentRecipient(disp.assigneeId, disp.actor) THEN 1 ELSE 0
        IN /\ Len(notifications) = base + Cardinality(NotifyingTokens)
           /\ base = 1 => /\ notifications[1].type = "task_comment"
                           /\ notifications[1].userId = disp.assigneeId
           /\ \A j \in NotifyingTokens :
                 LET k == base + Cardinality({l \in NotifyingTokens : l <= j})
                 IN /\ notifications[k].type = "mention"
                    /\ notifications[k].userId = FirstMatch(disp.mentions[j])

\* C9: the key allocated for the slot between two adjacent keys k1 < k2 of
\* the sorted column lies strictly between them: k1 < k < k2 in the order of
\* localeCompare.
C9_BetweenIsStrictlyBetween ==
  (allocated.op = "between" /\ LocaleLess(allocated.before, allocated.after))
    => /\ LocaleLess(allocated.before, allocated.key)
       /\ LocaleLess(allocated.key, allocated.after)

\* C10: the key allocated for index 0 of a column that has a first key k is
\* strictly less than k, so that repeated insertions at the start give
\* strictly decreasing keys.
C10_StartIsStrictlyLess ==
  (allocated.op = "start" /\ allocated.after # <<>>)
    => LocaleLess(allocated.key, allocated.after)

\* C11: the key allocated for an index at or past the end of a column that
\* has a last key k is strictly greater than k in the order of localeCompare,
\* so that repeated appends give strictly increasing keys.
C11_EndIsStrictlyGreater ==
  (allocated.op = "end" /\ allocated.before # <<>>)
    => LocaleLess(allocated.before, allocated.key)

\* C12: no two tasks of the column have equal position keys, whatever
\* creations and drops led to it.
C12_PositionsUnique ==
  \A i, j \in 1..Len(column) : i # j => column[i] # column[j]

\* C13: a call of reorderTask with newStatus 'done' leaves the row with
\* status 'done' and a completion date; a call with 'todo' or 'in_progress',
\* also right after one with 'done', leaves it with that status and no
\* completion date; position, status and completion date are those of the one
\* write of the call, and no other row changes.
C13_ReorderSetsAndClearsCompletion ==
  [][now' # now =>
       LET r == reordered'
           row == taskRows'[r.taskId]
       IN /\ \A t \in TaskIds \ {r.taskId} : taskRows'[t] = taskRows[t]
          /\ r.taskId \notin deleted =>
                /\ row.position = r.newPosition
                /\ row.updatedAt = now
                /\ r.newStatus = "done" =>
                      row.status = "done" /\ row.completedAt = now
                /\ r.newStatus \in {"todo", "in_progress"} =>
                      row.status = r.newStatus /\ row.completedAt = NoDate]_vars

\* a task that was done has been moved back to another column and has lost
\* its completion date
C13_Witness ==
  /\ reordered.taskId \in TaskIds \ deleted
  /\ reordered.from = "done"
  /\ reordered.newStatus \in {"todo", "in_progress"}
  /\ taskRows[reordered.taskId].status = reordered.newStatus
  /\ taskRows[reordered.taskId].completedAt = NoDate

\* C14: removeConnection for a connection that is in no set - never added,
\* without organizationId, or already removed by the other handler - changes
\* no organization's set, hence not the count.
C14_RemoveAbsentIsNoOp ==
  \A c \in Conns :
    ~Registered(c) => RemoveConnection(connections, c) = connections

\* both the error handler and the close handler have run for a connection
\* while another connection of its organization stays registered, and a
\* socket that was never added exists
C14_Witness ==
  \E c, d \in Conns :
    /\ c # d
    /\ ws[c].listeners /\ ws[c].errored /\ ws[c].readyState = "CLOSED"
    /\ ws[d].organizationId = ws[c].organizationId
    /\ Registered(d)
    /\ getConnectionCount = 1

\* C15: a registered connection is in exactly the set keyed by its own
\* organizationId and is authenticated with userId and organizationId set;
\* adding a connection again changes nothing.
C15_RegistryInvariant ==
  \A c \in Conns :
    /\ \A o \in Orgs : c \in connections[o] =>
          /\ o = ws[c].organizationId
          /\ ws[c].isAuthenticated
          /\ ws[c].userId # None
    /\ Registered(c) => AddConnection(connections, c, ws[c]) = connections

\* two connections of one user registered under different organizations,
\* the user having moved between the two handshakes
C15_Witness ==
  \E c, d \in Conns : \E o, q \in Orgs :
    /\ o # q
    /\ c \in connections[o] /\ d \in connections[q]
    /\ ws[c].userId = ws[d].userId

\* the transport of c can still carry messages
TransportOpen(c) ==
  ws[c].readyState \in {"OPEN", "CLOSING"} /\ ~ws[c].errored

\* C16: a connection whose transport has closed is in no set, and
\* getConnectionCount() is the number of authenticated connections whose
\* transport is open.
C16_RegistryHoldsOnlyLive ==
  /\ \A c \in Conns : ws[c].readyState = "CLOSED" => ~Registered(c)
  /\ getConnectionCount =
       Cardinality({c \in Conns : ws[c].isAuthenticated /\ TransportOpen(c)})

\* C17: a message received on a connection that is not authenticated closes
\* that connection with code 1008.
C17_UnauthenticatedMessageCloses ==
  [][\A c \in Conns :
       (ws'[c].inbound > ws[c].inbound /\ ~ws[c].isAuthenticated) =>
         /\ ws'[c].closeCode = CloseAuthRequired
         /\ ws'[c].readyState # "OPEN"]_vars

\* C18: a payload that is not JSON, received on an authenticated connection,
\* closes it with code 1003, sends nothing and touches no other connection;
\* once its close event is processed the connection is in no set.
C18_InvalidJsonCloses ==
  /\ [][\A c \in Conns :
          (/\ ws'[c].inbound > ws[c].inbound
           /\ ws'[c].lastIn = "garbage"
           /\ ws[c].isAuthenticated) =>
             /\ ws'[c].closeCode = CloseBadFormat
             /\ ws'[c].readyState # "OPEN"
             /\ sent' = sent
             /\ connections' = connections
             /\ \A d \in Conns \ {c} : ws'[d] = ws[d]]_vars
  /\ [](\A c \in Conns :
          (ws[c].closeCode = CloseBadFormat /\ ws[c].readyState = "CLOSED")
            => ~Registered(c))

\* a connection closed for a payload that is not JSON has left the registry
\* while another one is still registered and open
C18_Witness ==
  \E c, d \in Conns :
    /\ ws[c].lastIn = "garbage" /\ ws[c].closeCode = CloseBadFormat
    /\ ws[c].readyState = "CLOSED" /\ ~Registered(c)
    /\ MessagesOf(c, "pong") = {}
    /\ Registered(d) /\ ws[d].readyState = "OPEN"

\* C19: the "connection" message is sent at most once on a connection, is
\* the first message the connection receives, carries the user and the
\* organization the stores returned, and is sent in the very step that
\* authenticates a connection whose transport is open.
C19_ConfirmationFirstAndOnce ==
  /\ [](\A c \in Conns :
          /\ Cardinality(MessagesOf(c, "connection")) <= 1
          /\ sent[c] # <<>> =>
                /\ sent[c][1].type = "connection"
                /\ sent[c][1].userId = ws[c].claimsSub
                /\ sent[c][1].organizationId = ws[c].userOrganizationId
                /\ ws[c].userFound /\ ws[c].hasSessionData)
  /\ [][\A c \in Conns :
          (~ws[c].isAuthenticated /\ ws'[c].isAuthenticated /\ ws[c].readyState = "OPEN")
            => /\ Len(sent'[c]) = 1
               /\ sent'[c][1].type = "connection"
               /\ sent'[c][1].userId = ws'[c].userId
               /\ sent'[c][1].organizationId = ws'[c].organizationId]_vars

\* a connection that got its confirmation, then a notification push and a
\* pong, while a second connection of the same user completes its handshake
\* with the dispatch still in flight
C19_Witness ==
  \E c, d \in Conns :
    /\ c # d
    /\ Len(sent[c]) >= 3
    /\ MessagesOf(c, "notification") # {} /\ MessagesOf(c, "pong") # {}
    /\ disp.pc \in CreatePcs
    /\ Len(sent[d]) = 1 /\ sent[d][1].type = "connection"

\* C20: every accepted connection that waits for a lookup is eventually
\* authenticated or closed by the server (or gone because its transport
\* closed), also when the session store never calls back.
C20_HandshakeEnds ==
  \A c \in Conns :
    (ws[c].phase \in {"session", "user"})
      ~> (ws[c].phase = "done" \/ ws[c].readyState = "CLOSED")

\* C24: a call of reorderTask whose newStatus is absent, or equal to the status
\* the row has, leaves the completion date of the row as it was.
C24_SameStatusKeepsCompletedAt ==
  [][now' # now =>
       LET r == reordered'
       IN (r.taskId \notin deleted /\ r.newStatus \in {NoStatus, r.from}) =>
             taskRows'[r.taskId].completedAt = taskRows[r.taskId].completedAt]_vars

\* C26: after disconnect() has run, and until the effect calls connect()
\* again, no reconnect timer is pending and no WebSocket is created, also
\* after the close event of the socket that disconnect() closed.
C26_DisconnectIsFinal ==
  /\ [](client.disconnected => \A s \in DOMAIN socks : ~socks[s].timer)
  /\ [][(client.disconnected /\ client'.disconnected) => Len(socks') = Len(socks)]_vars

\* the sockets of the instance that are connecting or open
LiveSockets ==
  {s \in DOMAIN socks : socks[s].readyState \in {"CONNECTING", "OPEN"}}

\* C27: at most one socket of the instance is connecting or open, and wsRef
\* refers to it.
C27_OneLiveSocket ==
  /\ Cardinality(LiveSockets) <= 1
  /\ \A s \in LiveSockets : client.wsRef = s

\* C28: every task row has a completion date exactly when its status is
\* 'done', in every state reached by creations, PATCH updates and reorders.
C28_CompletedIffDone ==
  \A t \in TaskIds \ deleted :
    (taskRows[t].completedAt # NoDate) <=> (taskRows[t].status = "done")

\* C29: when a task is dropped on itself no reorder request is issued and the
\* column is as it was, whatever the column holds and wherever the task is.
C29_DropOnSelfIsNoOp ==
  [][allocated'.op = "self" /\ allocated' # allocated =>
       ~allocated'.issued /\ column' = column]_vars

\* the recipients of the comment call in flight, in the order the code reaches
\* them: the assignee when the comment is not theirs, then the member found
\* for each mention token that is not the commenter, in text order
RECURSIVE MentionRecipients(_, _, _)
MentionRecipients(orgUsers, mentions, actor) ==
  IF mentions = <<>> THEN <<>>
  ELSE LET found == FindUser(orgUsers, mentions[1])
           rest == MentionRecipients(orgUsers, Tail(mentions), actor)
       IN IF found # None /\ found # actor
          THEN <<[userId |-> found, type |-> "mention"]>> \o rest
          ELSE rest

CommentRecipients ==
  (IF disp.assigneeId # None /\ disp.assigneeId # disp.actor
   THEN <<[userId |-> disp.assigneeId, type |-> "task_comment"]>> ELSE <<>>)
  \o MentionRecipients(disp.orgUsers, disp.mentions, disp.actor)

IsPrefix(a, b) ==
  Len(a) <= Len(b) /\ SubSeq(b, 1, Len(a)) = a

\* the records persisted so far are those of the first recipients, in order
PersistedInRecipientOrder ==
  /\ Len(notifications) <= Len(CommentRecipients)
  /\ \A k \in 1..Len(notifications) :
       /\ notifications[k].userId = CommentRecipients[k].userId
       /\ notifications[k].type = CommentRecipients[k].type

\* a rejected store call has ended the call with the error
FailurePropagates ==
  disp.rejected => (disp.error /\ disp.pc = "done")

\* the notification pushes among the messages written to a connection
PushesIn(messages) ==
  SelectSeq(messages, LAMBDA m : m.type = "notification")

\* nothing persisted or pushed is taken back, and nothing is persisted or
\* pushed once a store call of the fan-out has rejected
NoRollbackNoLaterRecipient ==
  /\ IsPrefix(notifications, notifications')
  /\ \A c \in Conns : IsPrefix(sent[c], sent'[c])
  /\ disp.rejected =>
        /\ notifications' = notifications
        /\ \A c \in Conns : PushesIn(sent'[c]) = PushesIn(sent[c])

\* C30: the fan-out of a comment is sequential and not rolled back: the
\* records persisted are at every moment those of the first recipients in the
\* order assignee, then mentions in text order; when persisting for one
\* recipient fails the call ends with the error, the records and pushes of
\* the earlier recipients stay, and no later recipient gets a record or a push.
C30_SequentialFanOutNoRollback ==
  /\ [](PersistedInRecipientOrder /\ FailurePropagates)
  /\ [][NoRollbackNoLaterRecipient]_vars

\* persisting for the second of three recipients failed: the assignee's
\* record is persisted and was pushed to the assignee's connection, the call
\* has ended with the error, and a recipient is left without a record
C30_Witness ==
  /\ disp.kind = "TaskComment" /\ disp.rejected /\ disp.error
  /\ Len(CommentRecipients) = 3
  /\ Len(notifications) = 1
  /\ notifications[1].type = "task_comment"
  /\ \E c \in Conns :
       /\ ws[c].userId = notifications[1].userId
       /\ \E k \in 1..Len(sent[c]) : sent[c][k].type = "notification"

\* C25: a message received on an authenticated connection, whatever its type
\* and fields, leaves the connection's userId, organizationId and
\* isAuthenticated and every organization's set as they were; a message of a
\* type the server does not know also leaves the socket in its state and
\* writes nothing to it.
C25_IdentityIsServerSide ==
  [][\A c \in Conns :
       (ws[c].isAuthenticated /\ ws'[c].inbound # ws[c].inbound) =>
         /\ ws'[c].userId = ws[c].userId
         /\ ws'[c].organizationId = ws[c].organizationId
         /\ ws'[c].isAuthenticated
         /\ connections' = connections
         /\ ws'[c].lastIn \in {"other", "identify"} =>
              /\ ws'[c] = [ws[c] EXCEPT !.inbound = ws'[c].inbound,
                                        !.lastIn = ws'[c].lastIn]
              /\ sent' = sent]_vars

\* a registered, open connection of u1 in organization 1 has just received a
\* message of unknown type that names another user and organization
C25_Witness ==
  \E c \in Conns :
    /\ ws[c].isAuthenticated /\ Registered(c) /\ ws[c].readyState = "OPEN"
    /\ ws[c].lastIn = "identify"
    /\ ws[c].userId = "u1" /\ ws[c].organizationId = 1

\* the ends of a connection attempt that are refusals for an authentication
\* reason: the handshake rejected by verifyClient, and the server's closes
\* with 1008 and 1011
AuthFailureKinds == {"refused", "auth1008", "error1011"}

\* the socket whose close event the step delivers
ClosesIn(s) ==
  /\ s \in DOMAIN socks
  /\ socks[s].readyState # "CLOSED"
  /\ socks'[s].readyState = "CLOSED"

\* C21: when a connection attempt ends because the server refused it for an
\* authentication reason, the client schedules no reconnect attempt.
C21_AuthFailureIsTerminal ==
  [][\A s \in 1..MaxSockets :
       (ClosesIn(s) /\ client'.lastKind \in AuthFailureKinds) => ~socks'[s].timer]_vars

\* the socket whose onclose schedules a reconnect in the step
SchedulesIn(s) ==
  ClosesIn(s) /\ socks'[s].timer

\* the step runs onopen of a socket
OpensIn(s) ==
  /\ s \in DOMAIN socks
  /\ socks[s].readyState = "CONNECTING"
  /\ socks'[s].readyState = "OPEN"

\* the step runs disconnect(): the cleanup of an effect, on a change of the
\* dependencies or on unmount
DisconnectRuns ==
  \/ client'.isAuthenticated # client.isAuthenticated
  \/ client'.organizationId # client.organizationId
  \/ client'.mounted # client.mounted

\* a reconnect is scheduled only while fewer than 5 attempts are counted, with
\* a delay of min(1000 * 2^n, 30000) ms for a count of n, and each timer that
\* fires counts one attempt
BackoffIsCappedAndExponential ==
  /\ \A s \in 1..MaxRetried :
       SchedulesIn(s) =>
         /\ client.reconnectAttempts < maxReconnectAttempts
         /\ socks'[s].delay = Min(BaseDelay * 2 ^ client.reconnectAttempts, MaxDelay)
  /\ client'.reconnectAttempts \in
       {0, client.reconnectAttempts, client.reconnectAttempts + 1}
  /\ client'.reconnectAttempts = client.reconnectAttempts + 1 =>
       \E s \in DOMAIN socks : socks[s].timer /\ ~socks'[s].timer

\* C22 as stated: capped exponential backoff, the attempt counter reset to 0
\* only by a successful open.
C22_ResetOnlyByOpen ==
  [][/\ BackoffIsCappedAndExponential
     /\ (client.reconnectAttempts > 0 /\ client'.reconnectAttempts = 0) =>
          \E s \in 1..MaxRetried : OpensIn(s)]_vars

\* C22, amended: capped exponential backoff, the attempt counter reset to 0
\* only by a successful open or by disconnect().
C22_ResetByOpenOrDisconnect ==
  [][/\ BackoffIsCappedAndExponential
     /\ (client.reconnectAttempts > 0 /\ client'.reconnectAttempts = 0) =>
          (DisconnectRuns \/ \E s \in 1..MaxRetried : OpensIn(s))]_vars

\* the server has refused the first connection and five reconnects in a row:
\* five attempts are counted, the last close has scheduled nothing, and the
\* client, still authenticated, has no socket and no timer left
C22_Witness ==
  /\ CanConnect(client.isAuthenticated, client.organizationId)
  /\ client.reconnectAttempts = maxReconnectAttempts
  /\ client.lastKind = "refused"
  /\ Len(socks) = maxReconnectAttempts + 1
  /\ \A s \in DOMAIN socks : socks[s].readyState = "CLOSED" /\ ~socks[s].timer

\* C23: a registered connection whose client has gone away without a close
\* reaching the server, and so sends no more pings, is eventually removed
\* from the registry.
C23_DeadConnectionPruned ==
  \A c \in Conns :
    (Registered(c) /\ ws[c].peerGone) ~> ~Registered(c)

====
